---- MODULE Spec2Model ----
(***************************************************************************)
(* A model of the `ete` terminal text editor (src/src/text_editor.rs and   *)
(* the driving loop of src/src/main.rs).                                   *)
(*                                                                         *)
(* A String is modelled as the sequence of its UTF-8 storage units, since  *)
(* the code measures cursor_col and String::len() in bytes.  The units are *)
(*   "x"       an ordinary one-byte character                              *)
(*   "CR"      carriage return (one byte)                                  *)
(*   "LF"      line feed (one byte)                                        *)
(*   "w1" "w2" the lead and the continuation byte of the two-byte          *)
(*             character "w"                                               *)
(* Rows and columns are 0-based as in the code; TLA+ sequences are 1-based *)
(* so row r of the buffer is lines[r + 1].                                 *)
(***************************************************************************)
EXTENDS Integers, Sequences, FiniteSets, TLC

VARIABLES pc, editor, path_exists, disk, last

vars == <<pc, editor, path_exists, disk, last>>

(***************************************************************************)
(* Bounds of the model.                                                    *)
(***************************************************************************)
\* InsertChar and InsertNewline are explored while the buffer stays within
\* MaxBytes bytes of saved output (Size)
MaxBytes == 4
\* the file at the path holds at most MaxFile bytes: the one found when the
\* program starts, and Save is explored for buffers of at most that Size
MaxFile == 2

(***************************************************************************)
(* Characters and their UTF-8 encoding.                                    *)
(***************************************************************************)
\* characters a KeyCode::Char event can carry: an ASCII one and a two-byte one
KeyChars == {"x", "w"}

\* characters a file on disk can hold
FileChars == {"x", "w", "CR", "LF"}

utf8(c) == IF c = "w" THEN <<"w1", "w2">> ELSE <<c>>

len_utf8(c) == Len(utf8(c))

\* str::is_char_boundary
is_char_boundary(s, idx) ==
    \/ idx = 0
    \/ idx = Len(s)
    \/ idx < Len(s) /\ s[idx + 1] # "w2"

\* the bytes of the character that starts at byte offset idx (a boundary < len)
char_len_at(s, idx) == IF s[idx + 1] = "w1" THEN 2 ELSE 1

RECURSIVE Texts(_)
\* every valid UTF-8 text of at most n bytes over FileChars
Texts(n) ==
    IF n = 0 THEN {<<>>}
    ELSE LET prev == Texts(n - 1)
         IN  prev \cup {t \o utf8(c) : t \in {u \in prev : Len(u) < n},
                                       c \in {d \in FileChars : len_utf8(d) = 1}}
                  \cup {t \o utf8(c) : t \in {u \in prev : Len(u) < n - 1},
                                       c \in {d \in FileChars : len_utf8(d) = 2}}

Files == Texts(MaxFile)

(***************************************************************************)
(* str::lines(), as used by open_file.                                     *)
(***************************************************************************)
RECURSIVE split_inclusive(_)
\* str::split_inclusive('\n'): the pieces keep their terminator
split_inclusive(s) ==
    IF s = <<>> THEN <<>>
    ELSE LET k == CHOOSE i \in 1..(Len(s) + 1) :
                     /\ (i = Len(s) + 1 \/ s[i] = "LF")
                     /\ \A j \in 1..(i - 1) : s[j] # "LF"
         IN  IF k > Len(s) THEN <<s>>
             ELSE <<SubSeq(s, 1, k)>> \o split_inclusive(SubSeq(s, k + 1, Len(s)))

\* the map of str::lines(): strip one "\n", and then one "\r" before it
lines_map(piece) ==
    IF piece # <<>> /\ piece[Len(piece)] = "LF"
    THEN LET l == SubSeq(piece, 1, Len(piece) - 1)
         IN  IF l # <<>> /\ l[Len(l)] = "CR" THEN SubSeq(l, 1, Len(l) - 1) ELSE l
    ELSE piece

\* a split on "\n" alone, which yields an empty line after a final terminator
\* and keeps the "\r" of a "\r\n"
str_lines_split(s) ==
    LET pieces == split_inclusive(s)
        bare(p) == IF p # <<>> /\ p[Len(p)] = "LF" THEN SubSeq(p, 1, Len(p) - 1) ELSE p
    IN  [i \in 1..Len(pieces) |-> bare(pieces[i])]
            \o (IF s # <<>> /\ s[Len(s)] = "LF" THEN << <<>> >> ELSE <<>>)

str_lines(s) ==
    LET pieces == split_inclusive(s)
    IN  [i \in 1..Len(pieces) |-> lines_map(pieces[i])]

(***************************************************************************)
(* The TextEditor value.  `panicked` is not a field of the struct: it is   *)
(* set in the result of an operation that panics (index out of bounds,     *)
(* arithmetic overflow, a String operation off a character boundary, an    *)
(* unwrap of an I/O error); the process then unwinds out of main.          *)
(***************************************************************************)
NoEditor ==
    [alive |-> FALSE, saved |-> FALSE, lines |-> <<>>, cursor_row |-> 0,
     cursor_col |-> 0, cursor_col_offset |-> 0, panicked |-> FALSE]

Panic(e) == [e EXCEPT !.panicked = TRUE]

RECURSIVE digits(_)
\* the length of format!("{}", n)
digits(n) == IF n < 10 THEN 1 ELSE 1 + digits(n \div 10)

get_line_number_width(e) == digits(Len(e.lines))

\* a subtraction that wraps at 0 instead of saturating
wrapping_sub1(x) == IF x = 0 THEN 2147483647 ELSE x - 1

\* usize::saturating_sub(1)
saturating_sub1(x) == IF x = 0 THEN 0 ELSE x - 1

\* a move_cursor that leaves the column where the arithmetic put it
clamp_col_missing(col, line_len) == col

\* move_cursor's column clamp
clamp_col(col, line_len) == IF col > line_len THEN line_len ELSE col

\* TextEditor::open_file, of a path that exists with the given content, and
\* of a path that does not exist
open_file(exists, content) ==
    IF exists
    THEN [alive |-> TRUE, saved |-> TRUE, lines |-> str_lines(content),
          cursor_row |-> 0, cursor_col |-> 0, cursor_col_offset |-> 2,
          panicked |-> FALSE]
    ELSE [alive |-> TRUE, saved |-> FALSE, lines |-> << <<>> >>,
          cursor_row |-> 0, cursor_col |-> 0, cursor_col_offset |-> 2,
          panicked |-> FALSE]

\* a row clamp that wraps to the first row
clamp_row_wraps(row, n) == IF row >= n THEN 0 ELSE row

\* move_cursor's row clamp (n >= 1)
clamp_row(row, n) == IF row >= n THEN n - 1 ELSE row

\* a move_cursor that also marks the document as changed
moved_dirty(e, row, col) ==
    [e EXCEPT !.cursor_row = row, !.cursor_col = col, !.saved = FALSE]

\* the fields move_cursor assigns
moved(e, row, col) == [e EXCEPT !.cursor_row = row, !.cursor_col = col]

\* TextEditor::move_cursor
move_cursor(e, direction) ==
    LET n    == Len(e.lines)
        back_oob == direction = "Back" /\ e.cursor_row >= n
        row1 == CASE direction = "Up"   -> saturating_sub1(e.cursor_row)
                  [] direction = "Down" -> e.cursor_row + 1
                  [] OTHER              -> e.cursor_row
        col1 == CASE direction = "Right" -> e.cursor_col + 1
                  [] direction = "Left"  -> saturating_sub1(e.cursor_col)
                  [] direction = "Front" -> 0
                  [] direction = "Back"  ->
                        IF back_oob THEN 0 ELSE Len(e.lines[e.cursor_row + 1])
                  [] OTHER               -> e.cursor_col
        \* lines.len() - 1 with no line: overflow panic, or a wrapped index
        \* that panics at the indexing that follows
        clamp_oob == row1 >= n /\ n = 0
        row2 == clamp_row(row1, n)
    IN  IF back_oob \/ clamp_oob THEN Panic(e)
        ELSE LET current_line == e.lines[row2 + 1]
             IN  moved(e, row2, clamp_col(col1, Len(current_line)))

\* Vec::insert(index, element), index <= len
vec_insert(v, index, x) ==
    SubSeq(v, 1, index) \o <<x>> \o SubSeq(v, index + 1, Len(v))

\* Vec::remove(index), index < len
vec_remove(v, index) ==
    SubSeq(v, 1, index) \o SubSeq(v, index + 2, Len(v))

\* TextEditor::insert_new_line
insert_new_line(e) ==
    LET n   == Len(e.lines)
        row == e.cursor_row
        col == e.cursor_col
        done(ls) == [e EXCEPT !.lines = ls, !.cursor_row = row + 1,
                              !.cursor_col = 0, !.saved = FALSE]
    IN  IF col = 0
        THEN IF row > n THEN Panic(e)
             ELSE done(vec_insert(e.lines, row, <<>>))
        ELSE IF row >= n THEN Panic(e)
        ELSE LET line == e.lines[row + 1]
             IN  IF col = Len(line)
                 THEN done(vec_insert(e.lines, row + 1, <<>>))
                 ELSE IF col > Len(line) \/ ~is_char_boundary(line, col)
                 THEN Panic(e)
                 ELSE LET new_line == SubSeq(line, col + 1, Len(line))
                          kept     == SubSeq(line, 1, col)
                      IN  done(vec_insert([e.lines EXCEPT ![row + 1] = kept],
                                          row + 1, new_line))

\* a clear_line that removes the line from the buffer instead of emptying it
clear_line_removes(e) ==
    IF e.cursor_row >= Len(e.lines) THEN Panic(e)
    ELSE [e EXCEPT !.lines = vec_remove(e.lines, e.cursor_row), !.cursor_col = 0]

\* TextEditor::clear_line
clear_line(e) ==
    IF e.cursor_row >= Len(e.lines) THEN Panic(e)
    ELSE [e EXCEPT !.lines[e.cursor_row + 1] = <<>>, !.cursor_col = 0]

\* TextEditor::insert_char
insert_char(e, c) ==
    IF e.cursor_row >= Len(e.lines) THEN Panic(e)
    ELSE LET line == e.lines[e.cursor_row + 1]
             col  == e.cursor_col
         IN  IF col > Len(line) \/ ~is_char_boundary(line, col) THEN Panic(e)
             ELSE [e EXCEPT !.lines[e.cursor_row + 1] =
                               SubSeq(line, 1, col) \o utf8(c)
                                   \o SubSeq(line, col + 1, Len(line)),
                            !.cursor_col = col + 1,
                            !.saved = FALSE]

\* a merge that forgets the text of the removed line
merge_drops(prev, line) == prev

\* erase_char's merge: self.lines[self.cursor_row - 1] += &line
merge(prev, line) == prev \o line

\* TextEditor::erase_char
erase_char(e) ==
    LET n   == Len(e.lines)
        row == e.cursor_row
        col == e.cursor_col
    IN  IF col > 0
        THEN IF row >= n THEN Panic(e)
             ELSE LET line == e.lines[row + 1]
                  IN  IF col - 1 >= Len(line) \/ ~is_char_boundary(line, col - 1)
                      THEN Panic(e)
                      ELSE LET w == char_len_at(line, col - 1)
                           IN  [e EXCEPT !.lines[row + 1] =
                                             SubSeq(line, 1, col - 1)
                                                 \o SubSeq(line, col + w, Len(line)),
                                         !.cursor_col = col - 1,
                                         !.saved = FALSE]
        ELSE IF col = 0 /\ row > 0
        THEN IF row - 1 >= n \/ row >= n THEN Panic(e)
             ELSE LET line == e.lines[row + 1]
                      prev == e.lines[row]
                  IN  [e EXCEPT !.lines = [vec_remove(e.lines, row)
                                              EXCEPT ![row] = merge(prev, line)],
                                !.cursor_col = Len(prev),
                                !.cursor_row = row - 1,
                                !.saved = FALSE]
        ELSE e

(***************************************************************************)
(* The file at the path: fs.exists, and fs.content when it exists.         *)
(***************************************************************************)
RECURSIVE written(_, _)
\* what the first k iterations of save's loop write: each line and a "\n"
written(ls, k) ==
    IF k = 0 THEN <<>> ELSE written(ls, k - 1) \o ls[k] \o <<"LF">>

\* the outcomes of save's I/O: File::create fails (-1), the write of line
\* k + 1 fails after k lines went out (0 <= k < len), every write succeeds (len)
SaveOutcomes(e) == (-1)..Len(e.lines)

\* TextEditor::save
save(e, fs, io) ==
    IF io = -1
    THEN [ed |-> Panic(e), fs |-> fs]
    ELSE IF io < Len(e.lines)
    THEN [ed |-> Panic(e), fs |-> [exists |-> TRUE, content |-> written(e.lines, io)]]
    ELSE [ed |-> [e EXCEPT !.saved = TRUE],
          fs |-> [exists |-> TRUE, content |-> written(e.lines, Len(e.lines))]]

(***************************************************************************)
(* Key events: code, the character of KeyCode::Char, the CONTROL modifier. *)
(***************************************************************************)
Key(code) == [code |-> code, ch |-> "", ctrl |-> FALSE]

CharKey(c) == [code |-> "Char", ch |-> c, ctrl |-> FALSE]

CtrlKey(c) == [code |-> "Char", ch |-> c, ctrl |-> TRUE]

\* an Esc arm without its guard
quit_unguarded(e) == TRUE

\* the guard of handle_key's Esc arm
quit_allowed(e) == e.saved

\* TextEditor::handle_key
handle_key(e, fs, event, io) ==
    LET same(r) == [ed |-> r, fs |-> fs]
        res == CASE event.code = "Char" /\ event.ch = "s" /\ event.ctrl ->
                        save(e, fs, io)
                 [] event.code = "Esc" /\ quit_allowed(e) ->
                        same([e EXCEPT !.alive = FALSE])
                 [] event.code = "Char" /\ event.ch = "q" /\ event.ctrl ->
                        same([e EXCEPT !.alive = FALSE])
                 [] event.code = "Up"    -> same(move_cursor(e, "Up"))
                 [] event.code = "Right" -> same(move_cursor(e, "Right"))
                 [] event.code = "Down"  -> same(move_cursor(e, "Down"))
                 [] event.code = "Left"  -> same(move_cursor(e, "Left"))
                 [] event.code = "Home"  -> same(move_cursor(e, "Front"))
                 [] event.code = "End"   -> same(move_cursor(e, "Back"))
                 [] event.code = "Char" /\ event.ch = "a" /\ event.ctrl ->
                        same(move_cursor(e, "Front"))
                 [] event.code = "Char" /\ event.ch = "e" /\ event.ctrl ->
                        same(move_cursor(e, "Back"))
                 [] event.code = "Char" /\ event.ch = "u" /\ event.ctrl ->
                        same(clear_line(e))
                 [] event.code = "Enter"     -> same(insert_new_line(e))
                 [] event.code = "Backspace" -> same(erase_char(e))
                 [] event.code = "Char"      -> same(insert_char(e, event.ch))
                 [] OTHER                    -> same(e)
    IN  IF res.ed.panicked THEN res
        ELSE [res EXCEPT !.ed.cursor_col_offset = get_line_number_width(res.ed) + 1]

(***************************************************************************)
(* The program: main opens the file, then handles one key event per        *)
(* iteration of its loop while the editor is alive.                        *)
(***************************************************************************)
\* u16::MAX
U16_MAX == 65535

\* usize::try_into::<u16>().unwrap_or(u16::MAX)
to_u16(x) == IF x > U16_MAX THEN U16_MAX ELSE x

\* where an iteration of main's loop leaves the terminal caret before it
\* reads the next event: cursor::MoveTo(column, row)
caret(e) == [col |-> to_u16(e.cursor_col), row |-> to_u16(e.cursor_row)]

\* the screen column at which render prints the first byte of every line
text_column(e) == get_line_number_width(e) + 1

RECURSIVE Size(_)
\* the bytes save would write for these lines
Size(ls) == IF ls = <<>> THEN 0 ELSE Len(Head(ls)) + 1 + Size(Tail(ls))

FS == [exists |-> path_exists, content |-> disk]

Init ==
    /\ pc = "start"
    /\ editor = NoEditor
    /\ path_exists \in BOOLEAN
    /\ disk \in Files
    /\ path_exists = FALSE => disk = <<>>
    /\ last = "None"

\* main, line 25: the construction succeeds
Open ==
    /\ pc = "start"
    /\ editor' = open_file(path_exists, disk)
    /\ pc' = "running"
    /\ last' = "Open"
    /\ UNCHANGED <<path_exists, disk>>

\* main, line 25: fs::read_to_string fails and main returns the error
OpenFail ==
    /\ pc = "start"
    /\ path_exists
    /\ pc' = "failed"
    /\ last' = "Open"
    /\ UNCHANGED <<editor, path_exists, disk>>

\* one iteration of main's loop on a key event
Command(name, event, io) ==
    /\ LET r == handle_key(editor, FS, event, io)
       IN  /\ path_exists' = r.fs.exists
           /\ disk' = r.fs.content
           /\ IF r.ed.panicked
              THEN pc' = "panicked" /\ editor' = editor
              ELSE /\ editor' = r.ed
                   /\ pc' = IF r.ed.alive THEN "running" ELSE "exited"
    /\ last' = name

MoveUp ==
    /\ pc = "running"
    /\ Command("MoveUp", Key("Up"), 0)

MoveDown ==
    /\ pc = "running"
    /\ Command("MoveDown", Key("Down"), 0)

MoveLeft ==
    /\ pc = "running"
    /\ Command("MoveLeft", Key("Left"), 0)

MoveRight ==
    /\ pc = "running"
    /\ Command("MoveRight", Key("Right"), 0)

MoveHome ==
    /\ pc = "running"
    /\ \E event \in {Key("Home"), CtrlKey("a")} : Command("MoveHome", event, 0)

MoveEnd ==
    /\ pc = "running"
    /\ \E event \in {Key("End"), CtrlKey("e")} : Command("MoveEnd", event, 0)

ClearLine ==
    /\ pc = "running"
    /\ Command("ClearLine", CtrlKey("u"), 0)

InsertChar ==
    \E c \in KeyChars :
        /\ pc = "running"
        /\ Size(editor.lines) + len_utf8(c) <= MaxBytes
        /\ Command("InsertChar", CharKey(c), 0)

InsertNewline ==
    /\ pc = "running"
    /\ Size(editor.lines) + 1 <= MaxBytes
    /\ Command("InsertNewline", Key("Enter"), 0)

Backspace ==
    /\ pc = "running"
    /\ Command("Backspace", Key("Backspace"), 0)

Save ==
    /\ pc = "running"
    /\ Size(editor.lines) <= MaxFile
    /\ \E io \in SaveOutcomes(editor) : Command("Save", CtrlKey("s"), io)

Quit ==
    /\ pc = "running"
    /\ Command("Quit", Key("Esc"), 0)

ForceQuit ==
    /\ pc = "running"
    /\ Command("ForceQuit", CtrlKey("q"), 0)

Next ==
    \/ Open
    \/ OpenFail
    \/ MoveUp
    \/ MoveDown
    \/ MoveLeft
    \/ MoveRight
    \/ MoveHome
    \/ MoveEnd
    \/ ClearLine
    \/ InsertChar
    \/ InsertNewline
    \/ Backspace
    \/ Save
    \/ Quit
    \/ ForceQuit

Spec == Init /\ [][Next]_vars

(***************************************************************************)
(* Vocabulary of the properties.  `dirty` of the specification is the      *)
(* negation of the field `saved`.                                          *)
(***************************************************************************)
MoveCommands ==
    {"MoveUp", "MoveDown", "MoveLeft", "MoveRight", "MoveHome", "MoveEnd"}

CursorCommands ==
    MoveCommands \cup {"ClearLine", "InsertChar", "InsertNewline", "Backspace"}

\* the editor has been constructed
Constructed == pc \in {"running", "exited", "panicked"}

\* 0 <= row < len(lines) and 0 <= col <= len(lines[row])
ValidCursor(e) ==
    /\ Len(e.lines) >= 1
    /\ 0 <= e.cursor_row /\ e.cursor_row < Len(e.lines)
    /\ 0 <= e.cursor_col /\ e.cursor_col <= Len(e.lines[e.cursor_row + 1])

\* lines, row, col and dirty of two editor values agree
SameDocument(e1, e2) ==
    /\ e1.lines = e2.lines
    /\ e1.cursor_row = e2.cursor_row
    /\ e1.cursor_col = e2.cursor_col
    /\ e1.saved = e2.saved

(***************************************************************************)
(* C1.  Cursor validity is preserved by every command: a step of MoveUp,   *)
(* MoveDown, MoveLeft, MoveRight, MoveHome, MoveEnd, ClearLine,            *)
(* InsertChar, InsertNewline or Backspace taken in a state with a valid    *)
(* cursor (at least one line, 0 <= row < len(lines), 0 <= col <=           *)
(* len(lines[row])) leaves the editor with a valid cursor.                 *)
(***************************************************************************)
C1_CursorValidityPreserved ==
    [][(pc = "running" /\ ValidCursor(editor) /\ last' \in CursorCommands)
          => ValidCursor(editor')]_vars

\* Backspace has acted and left the cursor inside a row below the first
C1_Witness ==
    /\ pc = "running"
    /\ last = "Backspace"
    /\ ValidCursor(editor)
    /\ Len(editor.lines) >= 2
    /\ editor.cursor_row >= 1
    /\ editor.cursor_col >= 1

(***************************************************************************)
(* C2.  lines is never empty: once Open has constructed the editor, from   *)
(* any file content of an existing path or from a non-existent path, the   *)
(* buffer holds at least one line, in every state that follows.            *)
(***************************************************************************)
C2_LinesNeverEmpty == Constructed => Len(editor.lines) >= 1

(***************************************************************************)
(* C3.  Cursor movement never faults: no MoveUp, MoveDown, MoveLeft,       *)
(* MoveRight, MoveHome or MoveEnd ends in a panic, in any state reachable  *)
(* from Open.                                                              *)
(***************************************************************************)
C3_MovementNeverFaults == ~(pc = "panicked" /\ last \in MoveCommands)

(***************************************************************************)
(* C4.  Boundary commands are no-ops: in a state with a valid cursor,      *)
(* MoveUp with row = 0, MoveLeft with col = 0 and Backspace with           *)
(* (row, col) = (0, 0) complete and leave lines, row, col and dirty        *)
(* unchanged (so the same holds of any number of repetitions).             *)
(***************************************************************************)
C4_BoundaryNoOps ==
    [][(/\ pc = "running"
        /\ ValidCursor(editor)
        /\ \/ last' = "MoveUp" /\ editor.cursor_row = 0
           \/ last' = "MoveLeft" /\ editor.cursor_col = 0
           \/ last' = "Backspace" /\ editor.cursor_row = 0 /\ editor.cursor_col = 0)
          => (pc' = "running" /\ SameDocument(editor, editor'))]_vars

\* Backspace has acted on a saved document, which only its (0, 0) case does,
\* in a buffer of several lines
C4_Witness ==
    /\ pc = "running"
    /\ last = "Backspace"
    /\ editor.saved
    /\ editor.cursor_row = 0 /\ editor.cursor_col = 0
    /\ Len(editor.lines) >= 2

(***************************************************************************)
(* C5.  Split/merge inverse: in every state with a valid cursor (r, c),    *)
(* InsertNewline immediately followed by Backspace completes and yields    *)
(* the original lines and the original cursor (r, c).                      *)
(***************************************************************************)
C5_SplitMergeInverse ==
    (pc = "running" /\ ValidCursor(editor)) =>
        LET split  == insert_new_line(editor)
            merged == erase_char(split)
        IN  /\ ~split.panicked
            /\ ~merged.panicked
            /\ merged.lines = editor.lines
            /\ merged.cursor_row = editor.cursor_row
            /\ merged.cursor_col = editor.cursor_col

(***************************************************************************)
(* C6.  Dirty tracking: a Save that succeeds leaves dirty = false, and a   *)
(* mutating command that completes (InsertChar, InsertNewline, ClearLine,  *)
(* and Backspace away from (0, 0)) leaves dirty = true.                    *)
(***************************************************************************)
C6_DirtyTracking ==
    [][(pc = "running" /\ pc' = "running") =>
          /\ last' = "Save" => editor'.saved
          /\ last' \in {"InsertChar", "InsertNewline", "ClearLine"} => ~editor'.saved
          /\ (/\ last' = "Backspace"
              /\ ~(editor.cursor_row = 0 /\ editor.cursor_col = 0)) => ~editor'.saved]_vars

(***************************************************************************)
(* C7.  Quit guard: Quit (Esc) ends the session exactly when dirty is      *)
(* false; when dirty is true it leaves alive, lines, cursor and dirty      *)
(* unchanged and the session goes on; ForceQuit (Ctrl+Q) ends the session  *)
(* whatever dirty is.                                                      *)
(***************************************************************************)
C7_QuitGuard ==
    [][pc = "running" =>
          /\ (last' = "Quit" /\ editor.saved) =>
                 (~editor'.alive /\ pc' = "exited")
          /\ (last' = "Quit" /\ ~editor.saved) =>
                 (/\ editor'.alive = editor.alive
                  /\ SameDocument(editor, editor')
                  /\ pc' = "running")
          /\ last' = "ForceQuit" => (~editor'.alive /\ pc' = "exited")]_vars

\* Quit has been refused on a dirty document: the session is still running
C7_Witness ==
    /\ pc = "running"
    /\ last = "Quit"
    /\ editor.alive
    /\ ~editor.saved
    /\ Len(editor.lines) >= 2

(***************************************************************************)
(* C8.  Save/Open round trip: after a Save that succeeds, Open of the same *)
(* path yields a lines sequence identical to the one saved.                *)
(***************************************************************************)
C8_SaveOpenRoundTrip ==
    (pc = "running" /\ last = "Save") =>
        open_file(path_exists, disk).lines = editor.lines

(***************************************************************************)
(* C9.  Open initial state: of a path that does not exist, lines = [""],   *)
(* dirty = true and the cursor is (0, 0); of a path that exists, dirty =   *)
(* false, the cursor is (0, 0) and lines is the file content split on line *)
(* terminators ("\n" or "\r\n"), a final terminator producing no trailing  *)
(* empty line.                                                             *)
(***************************************************************************)
RECURSIVE Flatten(_)
Flatten(ss) == IF ss = <<>> THEN <<>> ELSE Head(ss) \o Flatten(Tail(ss))

\* ls is the split of content on line terminators: content is the lines in
\* order, each followed by a terminator, where only a non-empty last line may
\* lack one, no line holds a "\n", and a "\r" before a "\n" belongs to the
\* terminator
SplitOnTerminators(content, ls) ==
    /\ \A i \in 1..Len(ls) : \A j \in 1..Len(ls[i]) : ls[i][j] # "LF"
    /\ \E term \in [1..Len(ls) -> {<<>>, <<"LF">>, <<"CR", "LF">>}] :
          /\ \A i \in 1..Len(ls) :
                /\ term[i] = <<>> => (i = Len(ls) /\ ls[i] # <<>>)
                /\ term[i] = <<"LF">> => (ls[i] = <<>> \/ ls[i][Len(ls[i])] # "CR")
          /\ Flatten([i \in 1..Len(ls) |-> ls[i] \o term[i]]) = content

C10_SaveAllOrNothing ==
    [][(pc = "running" /\ last' = "Save") =>
          \/ /\ pc' = "running"
             /\ editor'.saved
             /\ path_exists'
             /\ disk' = written(editor.lines, Len(editor.lines))
          \/ /\ path_exists' = path_exists
             /\ disk' = disk
             /\ SameDocument(editor, editor')]_vars

(***************************************************************************)
(* C11.  InsertNewline result: in every state with a valid cursor (r, c),  *)
(* with L = lines[r], InsertNewline completes and leaves the lines         *)
(* lines[0..r) ++ [L[0..c), L[c..)] ++ lines(r..end] (one line more), the  *)
(* cursor at (r + 1, 0) and dirty = true.                                  *)
(***************************************************************************)
C11_InsertNewlineResult ==
    [][(pc = "running" /\ ValidCursor(editor) /\ last' = "InsertNewline") =>
          LET r == editor.cursor_row
              c == editor.cursor_col
              L == editor.lines[r + 1]
          IN  /\ pc' = "running"
              /\ editor'.lines =
                     SubSeq(editor.lines, 1, r)
                         \o << SubSeq(L, 1, c), SubSeq(L, c + 1, Len(L)) >>
                         \o SubSeq(editor.lines, r + 2, Len(editor.lines))
              /\ Len(editor'.lines) = Len(editor.lines) + 1
              /\ editor'.cursor_row = r + 1
              /\ editor'.cursor_col = 0
              /\ ~editor'.saved]_vars

(***************************************************************************)
(* C12.  Backspace result: in a state with a valid cursor, Backspace with  *)
(* col > 0 completes, removes exactly the character at col - 1 of the      *)
(* current line and sets col to col - 1, row and the line count unchanged; *)
(* with col = 0 and row > 0 it completes, replaces lines[row - 1] by       *)
(* lines[row - 1] ++ lines[row], removes the current line (one line less), *)
(* sets col to the length of the original previous line and row to         *)
(* row - 1; both cases leave dirty = true.                                 *)
(***************************************************************************)
C12_BackspaceResult ==
    [][(pc = "running" /\ ValidCursor(editor) /\ last' = "Backspace") =>
          LET r == editor.cursor_row
              c == editor.cursor_col
              L == editor.lines[r + 1]
          IN  /\ c > 0 =>
                    /\ pc' = "running"
                    /\ \E ch \in FileChars :
                          /\ c + len_utf8(ch) - 1 <= Len(L)
                          /\ SubSeq(L, c, c + len_utf8(ch) - 1) = utf8(ch)
                          /\ editor'.lines =
                                 [editor.lines EXCEPT ![r + 1] =
                                     SubSeq(L, 1, c - 1)
                                         \o SubSeq(L, c + len_utf8(ch), Len(L))]
                    /\ editor'.cursor_col = c - 1
                    /\ editor'.cursor_row = r
                    /\ Len(editor'.lines) = Len(editor.lines)
                    /\ ~editor'.saved
              /\ (c = 0 /\ r > 0) =>
                    /\ pc' = "running"
                    /\ editor'.lines =
                           SubSeq(editor.lines, 1, r - 1)
                               \o << editor.lines[r] \o L >>
                               \o SubSeq(editor.lines, r + 2, Len(editor.lines))
                    /\ Len(editor'.lines) = Len(editor.lines) - 1
                    /\ editor'.cursor_col = Len(editor.lines[r])
                    /\ editor'.cursor_row = r - 1
                    /\ ~editor'.saved]_vars

(***************************************************************************)
(* C13.  InsertChar(c) frame: in every state with a valid cursor,          *)
(* InsertChar(c) completes, makes the current line L[0..col) ++ [c] ++     *)
(* L[col..), sets col to col + 1 and leaves row, the line count and every  *)
(* other line unchanged.                                                   *)
(***************************************************************************)
C13_InsertCharFrame ==
    [][(pc = "running" /\ ValidCursor(editor) /\ last' = "InsertChar") =>
          LET r == editor.cursor_row
              c == editor.cursor_col
              L == editor.lines[r + 1]
          IN  /\ pc' = "running"
              /\ \E ch \in KeyChars :
                    editor'.lines =
                        [editor.lines EXCEPT ![r + 1] =
                            SubSeq(L, 1, c) \o utf8(ch) \o SubSeq(L, c + 1, Len(L))]
              /\ editor'.cursor_col = c + 1
              /\ editor'.cursor_row = r]_vars

(***************************************************************************)
(* C14.  ClearLine frame: in every state with a valid cursor, ClearLine    *)
(* completes, makes lines[row] empty and sets col = 0, and leaves row, the *)
(* line count and every other line unchanged.                              *)
(***************************************************************************)
C14_ClearLineFrame ==
    [][(pc = "running" /\ ValidCursor(editor) /\ last' = "ClearLine") =>
          /\ pc' = "running"
          /\ editor'.lines = [editor.lines EXCEPT ![editor.cursor_row + 1] = <<>>]
          /\ Len(editor'.lines) = Len(editor.lines)
          /\ editor'.cursor_col = 0
          /\ editor'.cursor_row = editor.cursor_row]_vars

\* ClearLine has emptied a row below the first and the row above still has text
C14_Witness ==
    /\ pc = "running"
    /\ last = "ClearLine"
    /\ editor.cursor_row >= 1
    /\ editor.cursor_col = 0
    /\ editor.lines[editor.cursor_row + 1] = <<>>
    /\ editor.lines[1] # <<>>

(***************************************************************************)
(* C15.  Movement is read-only on content: no step of MoveUp, MoveDown,    *)
(* MoveLeft, MoveRight, MoveHome or MoveEnd changes lines or dirty, in any *)
(* state.                                                                  *)
(***************************************************************************)
C15_MovementReadOnly ==
    [][(pc = "running" /\ last' \in MoveCommands) =>
          (editor'.lines = editor.lines /\ editor'.saved = editor.saved)]_vars

\* a movement has acted on a saved document of several lines and moved the
\* cursor off the origin
C15_Witness ==
    /\ pc = "running"
    /\ last \in MoveCommands
    /\ editor.saved
    /\ Len(editor.lines) >= 2
    /\ editor.cursor_row >= 1
    /\ editor.cursor_col >= 1

(***************************************************************************)
(* C16.  Movement results, in a state with a valid cursor: MoveDown on the *)
(* last row keeps row and otherwise sets row + 1; MoveUp sets              *)
(* max(row - 1, 0); after either, col = min(old col, len(lines[new row])). *)
(* MoveRight at col = len(lines[row]) leaves the cursor unchanged and      *)
(* otherwise sets col + 1; MoveLeft sets max(col - 1, 0); MoveHome sets    *)
(* col = 0 and MoveEnd sets col = len(lines[row]); these four keep row.    *)
(***************************************************************************)
Min(a, b) == IF a < b THEN a ELSE b

Max(a, b) == IF a > b THEN a ELSE b

C17_CaretPlacement ==
    pc = "running" =>
        /\ caret(editor).row = editor.cursor_row
        /\ caret(editor).col = text_column(editor) + editor.cursor_col

(***************************************************************************)
(* C18.  No silent loss of edits on normal quit: when the session ends     *)
(* through Quit (Esc), the lines in memory are the content most recently   *)
(* persisted: the file at the path holds the lines as Save writes them, or *)
(* is the file Open loaded them from.                                      *)
(***************************************************************************)
C18_NoSilentLoss ==
    (pc = "exited" /\ last = "Quit") =>
        /\ path_exists
        /\ \/ disk = written(editor.lines, Len(editor.lines))
           \/ str_lines(disk) = editor.lines

(***************************************************************************)
(* C19.  Split and merge conserve the text: a completed InsertNewline, and *)
(* a completed Backspace at col = 0 of a row below the first, add, drop    *)
(* and reorder no character: the concatenation of all lines is the same    *)
(* before and after, and the line count changes by exactly +1 and -1.      *)
(***************************************************************************)
C19_SplitMergeConserve ==
    [][(pc = "running" /\ pc' = "running") =>
          /\ last' = "InsertNewline" =>
                /\ Flatten(editor'.lines) = Flatten(editor.lines)
                /\ Len(editor'.lines) = Len(editor.lines) + 1
          /\ (last' = "Backspace" /\ editor.cursor_col = 0
                                  /\ editor.cursor_row > 0) =>
                /\ Flatten(editor'.lines) = Flatten(editor.lines)
                /\ Len(editor'.lines) = Len(editor.lines) - 1]_vars

\* InsertNewline has split a line with text on both sides of the cursor
C19_Witness ==
    /\ pc = "running"
    /\ last = "InsertNewline"
    /\ editor.cursor_row >= 1
    /\ editor.lines[editor.cursor_row] # << >>
    /\ editor.lines[editor.cursor_row + 1] # << >>

(***************************************************************************)
(* C20.  Column on a character boundary: also when the text holds          *)
(* characters of more than one storage unit, col lies on a character       *)
(* boundary of lines[row] after every command, so that InsertChar,         *)
(* Backspace and InsertNewline never fault from a valid cursor.            *)
(***************************************************************************)
C20_ColumnOnCharBoundary ==
    /\ (pc = "running" /\ ValidCursor(editor)) =>
          is_char_boundary(editor.lines[editor.cursor_row + 1],
                           editor.cursor_col)
    /\ ~(/\ pc = "panicked"
         /\ last \in {"InsertChar", "Backspace", "InsertNewline"}
         /\ ValidCursor(editor))

====
